---------------------------- MODULE Spec2Model ----------------------------
(***************************************************************************)
(* Text-to-SQL harness: SQL extraction (prompting_utils.py), prompt        *)
(* assembly, the few-shot loop and the evaluation glue (prompting.py),     *)
(* and the T5 data set with its collation (load_data.py).                  *)
(*                                                                         *)
(* A Python str is a sequence of one-character strings; a list is a        *)
(* sequence; a 1-D tensor is a sequence of integers and a 2-D tensor a     *)
(* sequence of rows.                                                       *)
(***************************************************************************)
EXTENDS Integers, Sequences, FiniteSets, TLC

VARIABLES
    pc,             \* position of the running script
    response,       \* extract_sql_query: the argument
    query,          \* extract_sql_query: the returned string
    ptype, shot,    \* args.ptype, args.shot
    train_x, train_y,   \* load_prompting_data: train.nl / train.sql lines
    schema_file,    \* data/flight_database.schema on disk
    schema,         \* main: the schema variable
    inputs,         \* exp_kshot: the questions of the evaluation split
    sentence,       \* exp_kshot: the question of the running iteration
    prompt,         \* create_prompt: the returned string, or the raised error
    decoded,        \* exp_kshot: tokenizer.decode(outputs[0])
    raw_outputs,    \* exp_kshot: raw_outputs
    extracted_queries,  \* exp_kshot: extracted_queries
    targets,        \* T5Dataset: tokenizer ids of the lines of {split}.sql
    encoded,        \* T5Dataset: tokenizer ids of the encoder inputs
    split,          \* T5Dataset.split
    data,           \* T5Dataset.data
    batch,          \* the list handed to the collate function
    collated,       \* what the collate function returned
    error_msgs,     \* eval_outputs: compute_metrics' error messages
    error_rate      \* eval_outputs: the returned error rate

vars == << pc, response, query, ptype, shot, train_x, train_y, schema_file,
           schema, inputs, sentence, prompt, decoded, raw_outputs,
           extracted_queries, targets, encoded, split, data, batch, collated, error_msgs,
           error_rate >>

(***************************************************************************)
(* Bounds of the model.                                                    *)
(***************************************************************************)
MaxFrags == 4

(***************************************************************************)
(* str helpers                                                             *)
(***************************************************************************)
Min(S) == CHOOSE x \in S : \A y \in S : x <= y

Max(S) == CHOOSE x \in S : \A y \in S : x >= y

UpperOf ==
    [c \in {"a", "b", "c", "d", "e", "f", "g", "h", "i", "j", "k", "l", "m",
            "n", "o", "p", "q", "r", "s", "t", "u", "v", "w", "x", "y", "z"} |->
        CASE c = "a" -> "A" [] c = "b" -> "B" [] c = "c" -> "C" [] c = "d" -> "D"
          [] c = "e" -> "E" [] c = "f" -> "F" [] c = "g" -> "G" [] c = "h" -> "H"
          [] c = "i" -> "I" [] c = "j" -> "J" [] c = "k" -> "K" [] c = "l" -> "L"
          [] c = "m" -> "M" [] c = "n" -> "N" [] c = "o" -> "O" [] c = "p" -> "P"
          [] c = "q" -> "Q" [] c = "r" -> "R" [] c = "s" -> "S" [] c = "t" -> "T"
          [] c = "u" -> "U" [] c = "v" -> "V" [] c = "w" -> "W" [] c = "x" -> "X"
          [] c = "y" -> "Y" [] c = "z" -> "Z"]

\* str.upper() of one character
UpperChar(c) == IF c \in DOMAIN UpperOf THEN UpperOf[c] ELSE c

\* str.upper()
Upper(s) == [i \in 1..Len(s) |-> UpperChar(s[i])]

\* what \s matches and str.strip() strips
IsSpace(c) == c \in {" ", "\n", "\t", "\r"}

\* s[i:]
From(s, i) == SubSeq(s, i, Len(s))

\* the indices at which pat occurs in s
Occurrences(s, pat) ==
    {i \in 1..(Len(s) - Len(pat) + 1) : SubSeq(s, i, i + Len(pat) - 1) = pat}

\* pat in s
Contains(s, pat) == Occurrences(s, pat) # {}

\* s.startswith(pat)
StartsWith(s, pat) == Len(pat) <= Len(s) /\ SubSeq(s, 1, Len(pat)) = pat

\* s.endswith(pat)
EndsWith(s, pat) ==
    Len(pat) <= Len(s) /\ SubSeq(s, Len(s) - Len(pat) + 1, Len(s)) = pat

\* s.replace(pat, ""): the occurrences of pat, left to right, not overlapping
RECURSIVE Remove(_, _)
Remove(s, pat) ==
    IF ~Contains(s, pat) THEN s
    ELSE LET i == Min(Occurrences(s, pat))
         IN  SubSeq(s, 1, i - 1) \o Remove(From(s, i + Len(pat)), pat)

\* s.split(pat)[-1]
RECURSIVE SplitLast(_, _)
SplitLast(s, pat) ==
    IF ~Contains(s, pat) THEN s
    ELSE SplitLast(From(s, Min(Occurrences(s, pat)) + Len(pat)), pat)

\* s.strip()
Strip(s) ==
    LET keep == {i \in 1..Len(s) : ~IsSpace(s[i])}
    IN  IF keep = {} THEN << >> ELSE SubSeq(s, Min(keep), Max(keep))

(***************************************************************************)
(* prompting_utils.py                                                      *)
(***************************************************************************)
BOS == << "<", "b", "o", "s", ">" >>

EOS == << "<", "e", "o", "s", ">" >>

SqlLabel == << "S", "Q", "L", ":" >>

Select == << "S", "E", "L", "E", "C", "T" >>

\* the grave accent U+0060, which a TLA+ string literal cannot hold
Backtick == "GRAVE"

Fence == << Backtick, Backtick, Backtick >>

Semicolon == << ";" >>

\* lines 19-21: the special-token markers are removed, one replace after another
StripMarkers(r) ==
    LET r1 == Remove(Remove(r, BOS), EOS)
        r2 == Remove(Remove(r1, << "<", "s", ">" >>), << "<", "/", "s", ">" >>)
    IN  Remove(Remove(r2, << "<", "b", "o", "s", ">" >>),
               << "<", "e", "o", "s", ">" >>)

\* lines 24-26 with parts[0] for parts[-1]: the text before the first label
CutBeforeLabel(r) ==
    IF Contains(Upper(r), SqlLabel)
    THEN SubSeq(Upper(r), 1, Min(Occurrences(Upper(r), SqlLabel)) - 1)
    ELSE r

\* lines 24-26: the text after the last "SQL:" of the upper-cased response
CutAtLabel(r) ==
    IF Contains(Upper(r), SqlLabel) THEN SplitLast(Upper(r), SqlLabel) ELSE r

\* where r'(SELECT\s+.*?;)' with DOTALL | IGNORECASE can start in s
SelectStarts(s) ==
    {i \in 1..Len(s) :
        /\ i + 6 <= Len(s)
        /\ Upper(SubSeq(s, i, i + 5)) = Select
        /\ IsSpace(s[i + 6])
        /\ \E j \in (i + 7)..Len(s) : s[j] = ";"}

\* line 29: re.search finds a match
HasSelectMatch(s) == SelectStarts(s) # {}

\* line 30: match.group(1), the leftmost match, lazily ended at the next ";"
SelectMatch(s) ==
    LET i == Min(SelectStarts(s))
        j == Min({e \in (i + 7)..Len(s) : s[e] = ";"})
    IN  SubSeq(s, i, j)

\* line 32: re.sub(r'<fence>(sql)?', '', query, flags=re.IGNORECASE)
RECURSIVE RemoveFences(_)
RemoveFences(s) ==
    IF ~Contains(s, Fence) THEN s
    ELSE LET i == Min(Occurrences(s, Fence))
             rest == From(s, i + 3)
             tagged == Len(rest) >= 3
                       /\ Upper(SubSeq(rest, 1, 3)) = << "S", "Q", "L" >>
         IN  SubSeq(s, 1, i - 1)
                \o RemoveFences(IF tagged THEN From(rest, 4) ELSE rest)

\* line 33: query.replace("\n", " ")
NewlinesToSpaces(s) == [i \in 1..Len(s) |-> IF s[i] = "\n" THEN " " ELSE s[i]]

\* line 34 with r'\s\s' for r'\s+': each pair of whitespace becomes one space,
\* and the last character of a run of odd length stays
CollapsePairs(s) ==
    LET start(i) == Max({j \in 1..i : j = 1 \/ ~IsSpace(s[j - 1])})
        marked == [i \in 1..Len(s) |->
                     IF IsSpace(s[i])
                     THEN IF (i - start(i)) % 2 = 1 THEN "drop"
                          ELSE IF i < Len(s) /\ IsSpace(s[i + 1]) THEN " "
                          ELSE s[i]
                     ELSE s[i]]
    IN  SelectSeq(marked, LAMBDA c : c # "drop")

\* line 34, re.sub(r'\s+', ' ', query): each run of whitespace becomes one space
CollapseRuns(s) ==
    LET marked == [i \in 1..Len(s) |->
                     IF IsSpace(s[i])
                     THEN IF i > 1 /\ IsSpace(s[i - 1]) THEN "drop" ELSE " "
                     ELSE s[i]]
    IN  SelectSeq(marked, LAMBDA c : c # "drop")

\* lines 33-34
CollapseWhitespace(s) == Strip(CollapseRuns(NewlinesToSpaces(s)))

\* lines 36-37 without the test that the query is not empty
TerminateAlways(q) == IF ~EndsWith(q, Semicolon) THEN q \o Semicolon ELSE q

\* lines 36-37
Terminate(q) == IF q # << >> /\ ~EndsWith(q, Semicolon) THEN q \o Semicolon ELSE q

\* lines 29-30
Candidate(s) == IF HasSelectMatch(s) THEN SelectMatch(s) ELSE s

\* lines 14-38
extract_sql_query(r) ==
    Terminate(CollapseWhitespace(RemoveFences(Candidate(CutAtLabel(StripMarkers(r))))))

(***************************************************************************)
(* Variables a specification does not use keep their initial values.       *)
(***************************************************************************)
ExtractVars == << response, query >>

PromptVars == << ptype, shot, train_x, train_y, schema_file, schema, inputs,
                 sentence, prompt, decoded, raw_outputs, extracted_queries >>

T5Vars == << targets, encoded, split, data, batch, collated >>

EvalVars == << error_msgs, error_rate >>

ExtractIdle == response = << >> /\ query = << >>

PromptIdle ==
    /\ ptype = 0 /\ shot = 0
    /\ train_x = << >> /\ train_y = << >>
    /\ schema_file = [exists |-> FALSE, text |-> << >>]
    /\ schema = [none |-> TRUE, text |-> << >>]
    /\ inputs = << >> /\ sentence = << >>
    /\ prompt = [error |-> "", text |-> << >>]
    /\ decoded = << >> /\ raw_outputs = << >> /\ extracted_queries = << >>

T5Idle ==
    /\ targets = << >> /\ encoded = << >> /\ split = "train"
    /\ data = << >> /\ batch = << >> /\ collated = << >>

EvalIdle == error_msgs = << >> /\ error_rate = [num |-> 0, den |-> 1]

(***************************************************************************)
(* extract_sql_query applied to a model response.  The responses are the   *)
(* concatenations of at most MaxFrags of the fragments below: labels in    *)
(* both cases, SELECT with and without following whitespace, a semicolon,  *)
(* a newline, a lower-case letter, a special-token marker and a code       *)
(* fence with its language tag.                                            *)
(***************************************************************************)
Fragments ==
    { SqlLabel,
      << "s", "q", "l" >>,
      << ":" >>,
      << "s", "e", "l", "e", "c", "t", " " >>,
      Select,
      << "\n" >>,
      Semicolon,
      << "a" >>,
      << "<", "s", ">" >>,
      Fence }

RECURSIVE Concatenations(_, _)
Concatenations(F, n) ==
    IF n = 0 THEN {<< >>}
    ELSE LET shorter == Concatenations(F, n - 1)
         IN  shorter \cup {f \o r : f \in F, r \in shorter}

Responses == Concatenations(Fragments, MaxFrags)

ExtractInit ==
    /\ pc = "response"
    /\ response \in Responses
    /\ query = << >>
    /\ PromptIdle /\ T5Idle /\ EvalIdle

\* the caller hands the response to extract_sql_query and keeps the result
Extract ==
    /\ pc = "response"
    /\ query' = extract_sql_query(response)
    /\ pc' = "extracted"
    /\ UNCHANGED << response, PromptVars, T5Vars, EvalVars >>

ExtractNext == Extract

SpecExtract == ExtractInit /\ [][ExtractNext]_vars

(***************************************************************************)
(* Properties of extract_sql_query                                         *)
(***************************************************************************)
\* the number of semicolons of s
Semicolons(s) == Cardinality({i \in 1..Len(s) : s[i] = ";"})

\* s ends with one semicolon and holds no other
OneFinalSemicolon(s) == EndsWith(s, Semicolon) /\ Semicolons(s) = 1

\* a case-insensitive "SQL:" occurs in r
HasLabel(r) == Contains(Upper(r), SqlLabel)

\* the text of r after its last label, in r's own letter case
AfterLastLabel(r) == From(r, Len(r) - Len(SplitLast(Upper(r), SqlLabel)) + 1)

\* the text the SELECT search of section 4.4 runs on, letter case kept: the
\* markers stripped, then everything up to the last label dropped
Searched(r) ==
    IF HasLabel(StripMarkers(r)) THEN AfterLastLabel(StripMarkers(r))
    ELSE StripMarkers(r)

\* C1: for every response that contains a SELECT ... ; substring the result is
\* that first substring, code fences dropped and whitespace normalized, in the
\* letter case of the response (also behind a "SQL:" label).
C1_SelectKeepsCase ==
    (pc = "extracted" /\ HasSelectMatch(Searched(response)))
        => query = CollapseWhitespace(RemoveFences(SelectMatch(Searched(response))))

\* C2 as stated: for every response without a semicolon, the empty one
\* included, the result ends with exactly one semicolon and holds no other.
C2_AlwaysOneSemicolon ==
    (pc = "extracted" /\ ~Contains(response, Semicolon))
        => OneFinalSemicolon(query)

\* nothing but whitespace is left of r once the markers, the text up to the
\* last label and the code fences are removed
NothingLeft(r) == Strip(RemoveFences(CutAtLabel(StripMarkers(r)))) = << >>

\* C2 as amended: for every response without a semicolon the result is empty
\* when nothing but whitespace is left after the markers, the text up to the
\* last label and the code fences are removed, and otherwise it ends with
\* exactly one semicolon and holds no other.
C2_OneSemicolonUnlessEmpty ==
    (pc = "extracted" /\ ~Contains(response, Semicolon))
        => IF NothingLeft(response) THEN query = << >>
           ELSE OneFinalSemicolon(query)

\* a response without a semicolon, with a marker and a fence in it, got its
\* semicolon
C2_Witness ==
    /\ pc = "extracted"
    /\ ~Contains(response, Semicolon)
    /\ Contains(response, << "<", "s", ">" >>)
    /\ Contains(response, Fence)
    /\ OneFinalSemicolon(query)
    /\ Len(query) > 1

\* C5: for every response with a "SQL:" label the result is decided by the text
\* after the last label alone: it is the result for the bare label followed
\* by that text, whatever stood before.
C5_OnlyAfterLastLabel ==
    (pc = "extracted" /\ HasLabel(response))
        => query = extract_sql_query(SqlLabel \o AfterLastLabel(response))

\* a response with text before the first of several labels was extracted
C5_Witness ==
    /\ pc = "extracted"
    /\ Cardinality(Occurrences(Upper(response), SqlLabel)) >= 2
    /\ ~StartsWith(Upper(response), SqlLabel)
    /\ AfterLastLabel(response) # << >>
    /\ query # << >>

\* C10 as stated: extracting from an extracted statement changes nothing.
C10_Idempotent ==
    pc = "extracted" => extract_sql_query(query) = query

\* r holds no "<" and no grave accent: no marker and no code fence can be in
\* it or come to be in what is extracted from it
NoMarkup(r) == \A i \in 1..Len(r) : r[i] # "<" /\ r[i] # Backtick

\* C10 as amended: extraction is idempotent on every response that holds no
\* "<" and no grave accent and in which the SELECT search finds a statement.
C10_IdempotentOnStatements ==
    (/\ pc = "extracted"
     /\ NoMarkup(response)
     /\ HasSelectMatch(CutAtLabel(response)))
        => extract_sql_query(query) = query

\* a statement behind a label, with text before it and a run of whitespace
\* in it, was extracted
C10_Witness ==
    /\ pc = "extracted"
    /\ NoMarkup(response)
    /\ HasSelectMatch(CutAtLabel(response))
    /\ HasLabel(response)
    /\ Contains(response, << " ", "\n" >>)
    /\ query # response

(***************************************************************************)
(* prompting.py: create_prompt                                             *)
(***************************************************************************)
\* line 33
Instruct0 ==
    << "C", "o", "n", "v", "e", "r", "t", " ", "E", "n", "g", "l", "i", "s",
       "h", " ", "q", "u", "e", "s", "t", "i", "o", "n", "s", " ", "t", "o",
       " ", "S", "Q", "L", " ", "q", "u", "e", "r", "i", "e", "s", ".", "\n",
       "\n" >>

\* line 36
Instruct1 ==
    << "C", "o", "n", "v", "e", "r", "t", " ", "E", "n", "g", "l", "i", "s",
       "h", " ", "q", "u", "e", "s", "t", "i", "o", "n", "s", " ", "t", "o",
       " ", "S", "Q", "L", " ", "q", "u", "e", "r", "i", "e", "s", " ", "f",
       "o", "r", " ", "a", " ", "f", "l", "i", "g", "h", "t", " ", "d", "a",
       "t", "a", "b", "a", "s", "e", ".", " ", "U", "s", "e", " ", "p", "r",
       "o", "p", "e", "r", " ", "S", "Q", "L", " ", "s", "y", "n", "t", "a",
       "x", " ", "w", "i", "t", "h", " ", "c", "o", "r", "r", "e", "c", "t",
       " ", "t", "a", "b", "l", "e", " ", "j", "o", "i", "n", "s", " ", "a",
       "n", "d", " ", "a", "l", "i", "a", "s", "e", "s", ".", " ", "O", "u",
       "t", "p", "u", "t", " ", "o", "n", "l", "y", " ", "t", "h", "e", " ",
       "S", "Q", "L", " ", "q", "u", "e", "r", "y", ".", "\n", "\n" >>

\* line 39
Instruct2 ==
    << "C", "o", "n", "v", "e", "r", "t", " ", "E", "n", "g", "l", "i", "s",
       "h", " ", "q", "u", "e", "s", "t", "i", "o", "n", "s", " ", "t", "o",
       " ", "S", "Q", "L", " ", "q", "u", "e", "r", "i", "e", "s", " ", "f",
       "o", "r", " ", "a", " ", "f", "l", "i", "g", "h", "t", " ", "d", "a",
       "t", "a", "b", "a", "s", "e", ".", " ", "U", "s", "e", " ", "p", "r",
       "o", "p", "e", "r", " ", "S", "Q", "L", " ", "s", "y", "n", "t", "a",
       "x", " ", "w", "i", "t", "h", " ", "S", "E", "L", "E", "C", "T", ",",
       " ", "F", "R", "O", "M", ",", " ", "W", "H", "E", "R", "E", ",", " ",
       "a", "n", "d", " ", "J", "O", "I", "N", " ", "c", "l", "a", "u", "s",
       "e", "s", ".", " ", "A", "l", "w", "a", "y", "s", " ", "u", "s", "e",
       " ", "t", "a", "b", "l", "e", " ", "a", "l", "i", "a", "s", "e", "s",
       " ", "l", "i", "k", "e", " ", "f", "l", "i", "g", "h", "t", "_", "1",
       ",", " ", "c", "i", "t", "y", "_", "1", ",", " ", "a", "i", "r", "p",
       "o", "r", "t", "_", "s", "e", "r", "v", "i", "c", "e", "_", "1", ",",
       " ", "e", "t", "c", ".", " ", "J", "o", "i", "n", " ", "t", "a", "b",
       "l", "e", "s", " ", "c", "o", "r", "r", "e", "c", "t", "l", "y", " ",
       "t", "h", "r", "o", "u", "g", "h", " ", "t", "h", "e", "i", "r", " ",
       "f", "o", "r", "e", "i", "g", "n", " ", "k", "e", "y", " ", "r", "e",
       "l", "a", "t", "i", "o", "n", "s", "h", "i", "p", "s", ".", " ", "E",
       "n", "d", " ", "a", "l", "l", " ", "q", "u", "e", "r", "i", "e", "s",
       " ", "w", "i", "t", "h", " ", "a", " ", "s", "e", "m", "i", "c", "o",
       "l", "o", "n", ".", "\n", "\n" >>

SchemaTag == << "S", "c", "h", "e", "m", "a", ":", " " >>

BlankLine == << "\n", "\n" >>

\* line 42: the slice bound of schema[:300]
SchemaLimit == 300

\* Python's None and str as one value: none, or a text
None == [none |-> TRUE, text |-> << >>]

Str(s) == [none |-> FALSE, text |-> s]

\* the truth value of an optional str or of a list: None, "" and [] are false
Truthy(v) == ~v.none /\ v.text # << >>

\* s[:n]
Prefix(s, n) == SubSeq(s, 1, IF Len(s) < n THEN Len(s) ELSE n)

\* line 42 without the slice: the whole schema
SchemaWhole(sch) == SchemaTag \o sch.text \o BlankLine

\* line 42: f"Schema: {schema[:300]}\n\n"
SchemaExcerpt(sch) == SchemaTag \o Prefix(sch.text, SchemaLimit) \o BlankLine

\* lines 32-42
Instruct(code, sch) ==
    IF code = 0 THEN Instruct0
    ELSE IF code = 1 THEN Instruct1
    ELSE Instruct2 \o (IF Truthy(sch) THEN SchemaExcerpt(sch) ELSE << >>)

\* lines 48-50
ExampleSql(y) ==
    LET sql == Strip(y)
    IN  IF ~EndsWith(sql, Semicolon) THEN sql \o Semicolon ELSE sql

\* line 51: f"{train_x[idx]}\n{sql}\n\n"
ExampleBlock(x, y) == x \o << "\n" >> \o ExampleSql(y) \o BlankLine

\* lines 47-51 for idx = 0 .. n - 1
RECURSIVE ExampleBlocks(_, _, _)
ExampleBlocks(xs, ys, n) ==
    IF n = 0 THEN << >>
    ELSE ExampleBlocks(xs, ys, n - 1) \o ExampleBlock(xs[n], ys[n])

\* line 47: how many times the loop body runs (line 45 guards the loop)
LoopCount(k, xs, ys) ==
    IF k > 0 /\ xs # << >> /\ ys # << >>
    THEN (IF k < Len(xs) THEN k ELSE Len(xs))
    ELSE 0

\* a returned str, or the exception that left the function
Returned(s) == [error |-> "", text |-> s]

Raised(e) == [error |-> e, text |-> << >>]

\* lines 31-55; train_y[idx] at line 48 raises IndexError past the end of
\* train_y
create_prompt(s, k, xs, ys, sch, code) ==
    LET n == LoopCount(k, xs, ys)
    IN  IF n > Len(ys) THEN Raised("IndexError")
        ELSE Returned(Instruct(code, sch) \o ExampleBlocks(xs, ys, n) \o s)

\* lines 185-189: the schema is read for prompt types 1 and 2, when the file
\* exists
LoadedSchema(code, file) ==
    IF code \in {1, 2} /\ file.exists THEN Str(file.text) ELSE None

(***************************************************************************)
(* main up to the first prompt: the arguments, the training files and the  *)
(* schema file are what the run finds; the questions of train.nl differ    *)
(* line by line, the lines of train.sql come with and without their        *)
(* semicolon, and the two files need not have as many lines.               *)
(***************************************************************************)
MaxPtype == 3

MaxShot == 3

MaxTrain == 2

\* the i-th line of train.nl
Question(i) == << "q", IF i % 2 = 1 THEN "x" ELSE "y" >> \o [j \in 1..i |-> "?"]

\* lines of train.sql, as load_lines strips them
SqlLines == { << "a", ";" >>, << "b" >> }

RECURSIVE Lists(_, _)
Lists(S, n) ==
    IF n = 0 THEN {<< >>}
    ELSE LET shorter == Lists(S, n - 1)
         IN  shorter \cup {Append(l, x) : l \in shorter, x \in S}

\* the schema file: missing, empty, short, or one character over the limit
SchemaFiles ==
    { [exists |-> FALSE, text |-> << >>],
      [exists |-> TRUE, text |-> << >>],
      [exists |-> TRUE, text |-> << "t", "(", "c", ")" >>],
      [exists |-> TRUE,
       text |-> [i \in 1..(SchemaLimit + 1) |->
                    IF i <= SchemaLimit THEN "c" ELSE "d"]] }

PromptInit ==
    /\ pc = "main"
    /\ ptype \in 0..MaxPtype
    /\ shot \in 0..MaxShot
    /\ train_x \in {[i \in 1..n |-> Question(i)] : n \in 0..MaxTrain}
    /\ train_y \in Lists(SqlLines, MaxTrain)
    /\ schema_file \in SchemaFiles
    /\ schema = None
    /\ inputs = << << "l", "i", "s", "t" >> >>
    /\ sentence = inputs[1]
    /\ prompt = Returned(<< >>)
    /\ decoded = << >> /\ raw_outputs = << >> /\ extracted_queries = << >>
    /\ ExtractIdle /\ T5Idle /\ EvalIdle

\* main, lines 183-189
LoadSchema ==
    /\ pc = "main"
    /\ schema' = LoadedSchema(ptype, schema_file)
    /\ pc' = "loaded"
    /\ UNCHANGED << ptype, shot, train_x, train_y, schema_file, inputs, sentence, prompt,
                    decoded, raw_outputs, extracted_queries,
                    ExtractVars, T5Vars, EvalVars >>

\* exp_kshot, line 65
CreatePrompt ==
    /\ pc = "loaded"
    /\ prompt' = create_prompt(sentence, shot, train_x, train_y, schema, ptype)
    /\ pc' = "prompted"
    /\ UNCHANGED << ptype, shot, train_x, train_y, schema_file, schema, inputs, sentence,
                    decoded, raw_outputs, extracted_queries,
                    ExtractVars, T5Vars, EvalVars >>

PromptNext == LoadSchema \/ CreatePrompt

SpecPrompt == PromptInit /\ [][PromptNext]_vars

(***************************************************************************)
(* Properties of create_prompt                                             *)
(***************************************************************************)
\* the smaller of two numbers
Smaller(a, b) == IF a < b THEN a ELSE b

\* the training examples there are: the pairs of a question and its SQL
Available == Smaller(Len(train_x), Len(train_y))

\* a block as section 4.2 words it: question, newline, SQL with its one
\* semicolon, blank line
ClaimedBlock(i) ==
    train_x[i] \o << "\n" >>
        \o (IF EndsWith(train_y[i], Semicolon) THEN train_y[i]
            ELSE train_y[i] \o Semicolon)
        \o BlankLine

RECURSIVE ClaimedBlocks(_)
ClaimedBlocks(n) == IF n = 0 THEN << >> ELSE ClaimedBlocks(n - 1) \o ClaimedBlock(n)

\* C4: create_prompt never fails, also when train_x and train_y differ in
\* length, and returns the instruction text, min(k, examples available)
\* blocks in training-list order, and the question.
C4_BlocksAndNoFailure ==
    pc = "prompted"
        => /\ prompt.error = ""
           /\ prompt.text = Instruct(ptype, schema)
                                \o ClaimedBlocks(Smaller(shot, Available))
                                \o sentence

\* the schema arguments create_prompt can be called with
SchemaArgs == {None} \cup {Str(f.text) : f \in SchemaFiles}

\* the instruction variant of a code in {0, 1, 2}
Variant(code) == IF code = 0 THEN Instruct0 ELSE IF code = 1 THEN Instruct1 ELSE Instruct2

\* what follows the instruction text in the prompt the run built
AfterInstruct == ExampleBlocks(train_x, train_y, LoopCount(shot, train_x, train_y)) \o sentence

\* C9: the code picks one of three instruction variants; "Schema: " with the
\* first 300 characters of the schema follows the instruction exactly when
\* the code is 2 and a non-empty schema was supplied, and with codes 0 and 1
\* the prompt is the same whatever the schema argument.
C9_VariantAndSchema ==
    (pc = "prompted" /\ prompt.error = "")
        => /\ Contains(prompt.text, SchemaTag) <=> (ptype = 2 /\ Truthy(schema))
           /\ ptype \in {0, 1, 2} =>
                \A sch \in SchemaArgs :
                    LET p == create_prompt(sentence, shot, train_x, train_y, sch, ptype).text
                    IN  /\ Contains(p, SchemaTag) <=> (ptype = 2 /\ Truthy(sch))
                        /\ p = Variant(ptype)
                                \o (IF ptype = 2 /\ Truthy(sch)
                                    THEN SchemaTag \o Prefix(sch.text, 300) \o BlankLine
                                    ELSE << >>)
                                \o AfterInstruct
                        /\ ptype \in {0, 1} => p = prompt.text

\* a prompt of type 2 was built with a schema longer than the limit
C9_Witness ==
    /\ pc = "prompted"
    /\ ptype = 2
    /\ Len(schema.text) > SchemaLimit
    /\ prompt.error = ""
    /\ Contains(prompt.text, SchemaTag)

(***************************************************************************)
(* prompting.py: exp_kshot.  The tokenizer call of line 78 truncates the   *)
(* prompt to max_length tokens; the model echoes the tokens it was given   *)
(* and goes on from there.  A token is one character here, and the budget  *)
(* of 2048 tokens is scaled down to MaxLength, so that the prompts of the  *)
(* model come both under and over it.                                      *)
(***************************************************************************)
MaxInputs == 3

MaxLength == 48

\* the i-th question of the evaluation split
EvalQuestion(i) == << "l", "i", "s", "t" >> \o [j \in 1..i |-> "!"]

\* what the model goes on with after the echo: nothing, a statement, a
\* statement under a label, a word on a line of its own
Generations ==
    { << >>,
      << " ", "s", "e", "l", "e", "c", "t", " ", "a", ";" >>,
      << "\n", "S", "Q", "L", ":", " ", "s", "e", "l", "e", "c", "t", " ", "b", ";" >>,
      << "\n", "a" >> }

\* lines 78-95: the decoded outputs for a prompt: its first MaxLength tokens
\* and what the model generated
Decodings(p) == {Prefix(p, MaxLength) \o g : g \in Generations}

\* lines 98-99
StripPrompt(p, r) == IF Len(p) < Len(r) THEN Strip(From(r, Len(p) + 1)) ELSE r

KshotInit ==
    /\ pc = "loaded"
    /\ ptype = 0
    /\ shot \in 0..2
    /\ train_x = << Question(1), Question(2) >>
    /\ train_y = << << "a", ";" >> >>
    /\ schema_file = [exists |-> FALSE, text |-> << >>]
    /\ schema = None
    /\ inputs \in {[i \in 1..n |-> EvalQuestion(i)] : n \in 1..MaxInputs}
    /\ sentence = << >>
    /\ prompt = Returned(<< >>)
    /\ decoded = << >> /\ raw_outputs = << >> /\ extracted_queries = << >>
    /\ ExtractIdle /\ T5Idle /\ EvalIdle

\* exp_kshot, lines 64-103: one turn of the loop
KshotIteration ==
    /\ pc \in {"loaded", "kshot"}
    /\ Len(raw_outputs) < Len(inputs)
    /\ LET s == inputs[Len(raw_outputs) + 1]
           p == create_prompt(s, shot, train_x, train_y, schema, ptype)
       IN  /\ sentence' = s
           /\ prompt' = p
           /\ IF p.error # ""
              THEN /\ pc' = "raised"
                   /\ UNCHANGED << decoded, raw_outputs, extracted_queries >>
              ELSE \E d \in Decodings(p.text) :
                     LET r == StripPrompt(p.text, d)
                     IN  /\ decoded' = d
                         /\ raw_outputs' = Append(raw_outputs, r)
                         /\ extracted_queries' =
                                Append(extracted_queries, extract_sql_query(r))
                         /\ pc' = "kshot"
    /\ UNCHANGED << ptype, shot, train_x, train_y, schema_file, schema, inputs,
                    ExtractVars, T5Vars, EvalVars >>

KshotNext == KshotIteration

SpecKshot == KshotInit /\ [][KshotNext]_vars

\* C3: the prompt is cut off the decoded output only when the output begins
\* with the prompt; an output that does not begin with it goes to
\* extract_sql_query as it is.
C3_CutOnlyAPrefix ==
    (pc = "kshot" /\ ~StartsWith(decoded, prompt.text))
        => /\ raw_outputs[Len(raw_outputs)] = decoded
           /\ extracted_queries[Len(raw_outputs)] = extract_sql_query(decoded)

(***************************************************************************)
(* prompting.py: eval_outputs.  compute_metrics returns one message per    *)
(* query, empty for a query that ran.                                      *)
(***************************************************************************)
MaxMsgs == 4

Messages == { << >>, << "e", "1" >>, << "e", "2" >> }

\* a number as a fraction, or the exception the division raised
Number(n, d) == [error |-> "", num |-> n, den |-> d]

\* a / b
Divide(a, b) ==
    IF b = 0 THEN [error |-> "ZeroDivisionError", num |-> 0, den |-> 0]
    ELSE Number(a, b)

\* line 134: sum(1 for msg in error_msgs if msg != "")
Failures(msgs) == Cardinality({i \in 1..Len(msgs) : msgs[i] # << >>})

\* line 134 without its condition
ErrorRateUnguarded(msgs) == Divide(Failures(msgs), Len(msgs))

\* line 134
ErrorRate(msgs) ==
    IF Len(msgs) > 0 THEN Divide(Failures(msgs), Len(msgs)) ELSE Number(0, 1)

EvalInit ==
    /\ pc = "eval"
    /\ error_msgs = << >>
    /\ error_rate = Number(0, 1)
    /\ ExtractIdle /\ PromptIdle /\ T5Idle

\* eval_outputs, lines 126-136
EvalOutputs ==
    /\ pc = "eval"
    /\ \E msgs \in Lists(Messages, MaxMsgs) :
          /\ error_msgs' = msgs
          /\ error_rate' = ErrorRate(msgs)
    /\ pc' = "evaluated"
    /\ UNCHANGED << ExtractVars, PromptVars, T5Vars >>

EvalNext == EvalOutputs

SpecEval == EvalInit /\ [][EvalNext]_vars

\* C8: the error rate is the number of non-empty messages over the number of
\* messages, 0 and no division error for no messages, and between 0 and 1.
C8_ErrorRate ==
    pc = "evaluated"
        => /\ error_rate.error = ""
           /\ error_rate.den > 0
           /\ error_rate.num * Len(error_msgs) = Failures(error_msgs) * error_rate.den
           /\ error_msgs = << >> => error_rate.num = 0
           /\ 0 <= error_rate.num /\ error_rate.num <= error_rate.den

\* a rate strictly between 0 and 1 was returned
C8_Witness ==
    /\ pc = "evaluated"
    /\ error_rate.error = ""
    /\ 0 < error_rate.num /\ error_rate.num < error_rate.den

(***************************************************************************)
(* load_data.py: T5Dataset and the collate functions.  The tokenizer is    *)
(* the library's: what it returns for a line is an input here, a sequence  *)
(* of ids that the T5 tokenizer closes with its end-of-sequence id.        *)
(***************************************************************************)
MaxLines == 2

MaxTok == 3

MaxBatch == 2

\* line 14
PAD_IDX == 0

\* line 63: tokenizer.convert_tokens_to_ids([BOS])[0], the id of <extra_id_0>
DecoderBegin == 32099

\* line 65: tokenizer.eos_token_id
EosTokenId == 1

\* a tokenizer result of n ids
Ids(base, n) == [i \in 1..n |-> IF i = n THEN EosTokenId ELSE base + 10 * n + i]

\* line 61: encoder_in['input_ids'].squeeze(0) of a question
Encodings == {Ids(200, n) : n \in 1..MaxTok}

\* line 62: decoder_out['input_ids'].squeeze(0) of a line of SQL
TargetIds == {Ids(100, n) : n \in 1..MaxTok}

\* encoder_in['attention_mask'].squeeze(0): a one for every id
Mask(ids) == [i \in 1..Len(ids) |-> 1]

\* lines 51-57
TestItem(enc) ==
    [ encoder_input_ids |-> enc,
      encoder_attention_mask |-> Mask(enc),
      decoder_start_token |-> DecoderBegin ]

\* lines 61-73 without the torch.cat of line 65: the target is the tokenizer's
\* sequence as it is
TrainItemNoEos(enc, tgt) ==
    [ encoder_input_ids |-> enc,
      encoder_attention_mask |-> Mask(enc),
      decoder_input_ids |-> << DecoderBegin >> \o tgt,
      decoder_target_ids |-> tgt,
      decoder_start_token |-> DecoderBegin ]

\* lines 61-73
TrainItem(enc, tgt) ==
    [ encoder_input_ids |-> enc,
      encoder_attention_mask |-> Mask(enc),
      decoder_input_ids |-> << DecoderBegin >> \o tgt,
      decoder_target_ids |-> tgt \o << EosTokenId >>,
      decoder_start_token |-> DecoderBegin ]

\* lines 36-75; zip stops at the shorter of the two files
process_data(sp, ins, outs) ==
    IF sp = "test" THEN [i \in 1..Len(ins) |-> TestItem(ins[i])]
    ELSE [i \in 1..(IF Len(ins) < Len(outs) THEN Len(ins) ELSE Len(outs)) |->
            TrainItem(ins[i], outs[i])]

\* the longest of the sequences
Longest(seqs) == Max({Len(seqs[i]) : i \in 1..Len(seqs)})

\* pad_sequence with the padding on the left
PadSequenceLeft(seqs, value) ==
    [i \in 1..Len(seqs) |->
        [j \in 1..(Longest(seqs) - Len(seqs[i])) |-> value] \o seqs[i]]

\* pad_sequence(seqs, batch_first=True, padding_value=value)
PadSequence(seqs, value) ==
    [i \in 1..Len(seqs) |->
        seqs[i] \o [j \in 1..(Longest(seqs) - Len(seqs[i])) |-> value]]

\* lines 100-113
normal_collate_fn(b) ==
    << PadSequence([i \in 1..Len(b) |-> b[i].encoder_input_ids], PAD_IDX),
       PadSequence([i \in 1..Len(b) |-> b[i].encoder_attention_mask], 0),
       PadSequence([i \in 1..Len(b) |-> b[i].decoder_input_ids], PAD_IDX),
       PadSequence([i \in 1..Len(b) |-> b[i].decoder_target_ids], PAD_IDX),
       [i \in 1..Len(b) |-> b[i].decoder_start_token] >>

\* lines 128-136
test_collate_fn(b) ==
    << PadSequence([i \in 1..Len(b) |-> b[i].encoder_input_ids], PAD_IDX),
       PadSequence([i \in 1..Len(b) |-> b[i].encoder_attention_mask], 0),
       [i \in 1..Len(b) |-> b[i].decoder_start_token] >>

\* line 144: the batches a DataLoader can hand to collate_fn: up to MaxBatch
\* examples, consecutive ones unless it shuffles, which line 141 asks for
\* on the training split
Batches(d, sp) ==
    LET picks == UNION {[1..m -> 1..Len(d)] : m \in 1..MaxBatch}
        distinct(f) == \A i, j \in DOMAIN f : i # j => f[i] # f[j]
        consecutive(f) == \A i \in DOMAIN f : f[i] = f[1] + i - 1
    IN  {[i \in DOMAIN f |-> d[f[i]]] :
            f \in {g \in picks : distinct(g) /\ (sp = "train" \/ consecutive(g))}}

T5Init ==
    /\ pc = "dataset"
    /\ split \in {"train", "dev", "test"}
    /\ encoded \in Lists(Encodings, MaxLines)
    /\ targets \in IF split = "test" THEN {<< >>} ELSE Lists(TargetIds, MaxLines)
    /\ data = << >> /\ batch = << >> /\ collated = << >>
    /\ ExtractIdle /\ PromptIdle /\ EvalIdle

\* T5Dataset.__init__, lines 30-33
ProcessData ==
    /\ pc = "dataset"
    /\ data' = process_data(split, encoded, targets)
    /\ pc' = "processed"
    /\ UNCHANGED << targets, encoded, split, batch, collated,
                    ExtractVars, PromptVars, EvalVars >>

\* a batch of the train or dev loader is collated (line 142)
NormalCollate ==
    /\ pc = "processed"
    /\ split # "test"
    /\ \E b \in Batches(data, split) :
          /\ batch' = b
          /\ collated' = normal_collate_fn(b)
    /\ pc' = "collated"
    /\ UNCHANGED << targets, encoded, split, data,
                    ExtractVars, PromptVars, EvalVars >>

\* a batch of the test loader is collated (line 142)
TestCollate ==
    /\ pc = "processed"
    /\ split = "test"
    /\ \E b \in Batches(data, split) :
          /\ batch' = b
          /\ collated' = test_collate_fn(b)
    /\ pc' = "collated"
    /\ UNCHANGED << targets, encoded, split, data,
                    ExtractVars, PromptVars, EvalVars >>

T5Next == ProcessData \/ NormalCollate \/ TestCollate

SpecT5 == T5Init /\ [][T5Next]_vars

(***************************************************************************)
(* Properties of the data set and of the collation                         *)
(***************************************************************************)
\* C6: for a train or dev example whose target tokenizes to T the decoder
\* input is [BOS] + T and the decoder target T + [EOS]: the target is the
\* input less its first id plus one EOS, and the two are as long.
C6_TeacherForcingShift ==
    (pc \in {"processed", "collated"} /\ split # "test")
        => /\ Len(data) = Smaller(Len(encoded), Len(targets))
           /\ \A i \in 1..Len(data) :
                LET input == data[i].decoder_input_ids
                    target == data[i].decoder_target_ids
                IN  /\ input = << DecoderBegin >> \o targets[i]
                    /\ target = targets[i] \o << EosTokenId >>
                    /\ target = Tail(input) \o << EosTokenId >>
                    /\ Len(input) = Len(target)

\* a training example with a target of three ids was built
C6_Witness ==
    /\ pc = "processed"
    /\ split = "train"
    /\ Len(data) >= 1
    /\ Len(targets[1]) = 3
    /\ Len(data[1].decoder_input_ids) = 4

\* matrix m is seqs padded on the right with zeros to the longest of them
PaddedRight(m, seqs) ==
    /\ Len(m) = Len(seqs)
    /\ \A i \in 1..Len(seqs) :
          /\ Len(m[i]) = Longest(seqs)
          /\ SubSeq(m[i], 1, Len(seqs[i])) = seqs[i]
          /\ \A j \in (Len(seqs[i]) + 1)..Len(m[i]) : m[i][j] = 0
    /\ (\A i, j \in 1..Len(seqs) : Len(seqs[i]) = Len(seqs[j])) => m = seqs

\* C7: each padded field of a collated batch holds, row by row in batch
\* order, the example's sequence followed only by zeros, as wide as the
\* longest sequence of that field, and unchanged when all are as long; the
\* start tokens come one per example.
C7_RightPadded ==
    pc = "collated"
        => /\ PaddedRight(collated[1], [i \in 1..Len(batch) |-> batch[i].encoder_input_ids])
           /\ PaddedRight(collated[2], [i \in 1..Len(batch) |-> batch[i].encoder_attention_mask])
           /\ collated[Len(collated)] = [i \in 1..Len(batch) |-> batch[i].decoder_start_token]
           /\ IF split = "test" THEN Len(collated) = 3
              ELSE /\ Len(collated) = 5
                   /\ PaddedRight(collated[3], [i \in 1..Len(batch) |-> batch[i].decoder_input_ids])
                   /\ PaddedRight(collated[4], [i \in 1..Len(batch) |-> batch[i].decoder_target_ids])

\* a batch of two examples, unequal in both the encoder and the decoder
\* sequences and padded to different widths, was collated
C7_Witness ==
    /\ pc = "collated"
    /\ split = "train"
    /\ Len(batch) = 2
    /\ Len(batch[1].encoder_input_ids) < Len(batch[2].encoder_input_ids)
    /\ Len(batch[1].decoder_input_ids) > Len(batch[2].decoder_input_ids)
    /\ Len(collated[1][1]) # Len(collated[3][1])
====
